---------------------------- MODULE Spec2Model ----------------------------
(***************************************************************************)
(* Model of examples/sample_code/user_auth.py: class UserAuth, an          *)
(* in-memory credential store (self.users, a dict of per-user dicts) with  *)
(* create_user, authenticate and the deprecated login.                     *)
(*                                                                         *)
(* Spec     : one caller; every call runs from entry to return.            *)
(* SpecConc : several threads share one UserAuth; a call is a sequence of  *)
(*            steps (one per source statement that reads or writes the     *)
(*            shared dicts) and the steps of different threads interleave. *)
(***************************************************************************)
EXTENDS Integers, Sequences, FiniteSets, TLC

\* ---------------------------------------------------------------- bounds
MaxTime == 1          \* time.time() takes the values 0..MaxTime
MaxAttempts == 2      \* calls that would raise failed_attempts above this are not issued
MaxCalls == 2         \* SpecConc: calls issued per thread

\* ---------------------------------------------------------------- inputs
\* Keys are compared as Python compares str: "alice" and "Alice" are different.
Usernames == {"alice", "Alice"}
\* Secrets that are str.  The empty string is a str like any other.
Secrets == {"", "a"}
\* A password argument that is not a str (None): password.encode() raises.
PyNone == "<None>"
Passwords == Secrets \cup {PyNone}
Threads == {1, 2}

\* Parameters of the lockout policy of the design document; the source has none.
Threshold == 2
LockoutDuration == 1

\* The configured username format of the design document; the source has none.
\* Here: lower-case letters only, so of Usernames only "alice" matches.
MatchesFormat(u) == u \in {"alice"}

\* ------------------------------------------------------- pure functions
Raise == "raise"

\* str.encode(): the UTF-8 bytes of the string; not defined on None.
Encode(p) ==
    CASE p = ""  -> <<>>
      [] p = "a" -> <<97>>
      [] OTHER   -> Raise

\* hashlib.sha256(bytes).hexdigest(): the digests of the byte strings above.
Sha256Hex(bytes) ==
    CASE bytes = <<>>   -> "e3b0c44298fc1c149afbf4c8996fb92427ae41e4649b934ca495991b7852b855"
      [] bytes = <<97>> -> "ca978112ca1bbdcafac231b39a23dc4da786eff8147c4e72b9807785afee48bb"

\* Variant: a constant is hashed in place of the password.
HashPassword_Constant(p) ==
    IF Encode(p) = Raise THEN Raise ELSE Sha256Hex(<<>>)

\* hashlib.sha256(password.encode()).hexdigest(); no salt, no username.
HashPassword(p) ==
    IF Encode(p) = Raise THEN Raise ELSE Sha256Hex(Encode(p))

\* Variant: the counter of a new record starts below zero.
NewRecord_Negative(hashed, t) ==
    [password |-> hashed, created_at |-> t, failed_attempts |-> 0 - 1]

\* The dict literal of create_user.
NewRecord(hashed, t) ==
    [password |-> hashed, created_at |-> t, failed_attempts |-> 0]

\* A store is the pair (users, heap).  heap[k] holds, in allocation order, the
\* dict objects that create_user(k, ...) has allocated; a reference to a dict
\* object is a pair <<k, i>>, and users maps each key that is present to the
\* object it is bound to.
Store(us, hp) == [users |-> us, heap |-> hp]

\* The dict object behind a reference.
Deref(st, ref) == st.heap[ref[1]][ref[2]]

\* self.users[username] for a key that is present.
Record(st, u) == Deref(st, st.users[u])

\* self.users[username] = {...}: a new dict object, bound to the key
\* (replacing whatever the key was bound to).
Insert(st, u, rec) ==
    Store([x \in DOMAIN st.users \cup {u} |->
              IF x = u THEN <<u, Len(st.heap[u]) + 1>> ELSE st.users[x]],
          [st.heap EXCEPT ![u] = Append(st.heap[u], rec)])

\* Variant: every record shares one counter (the store writes all of them).
SetFailedAttempts_Shared(st, ref, v) ==
    Store(st.users,
          [k \in DOMAIN st.heap |->
              [i \in DOMAIN st.heap[k] |->
                  [st.heap[k][i] EXCEPT !.failed_attempts = v]]])

\* Variant: the record is rebuilt around the counter and its hash is lost.
SetFailedAttempts_Rewrite(st, ref, v) ==
    Store(st.users,
          [st.heap EXCEPT ![ref[1]][ref[2]] =
              [password |-> "", created_at |-> @.created_at, failed_attempts |-> v]])

\* user['failed_attempts'] = v on the dict object ref.
SetFailedAttempts(st, ref, v) ==
    Store(st.users, [st.heap EXCEPT ![ref[1]][ref[2]].failed_attempts = v])

\* Variant: the increment is lost (the counter is written back unchanged).
Increment_Lost(st, ref) ==
    SetFailedAttempts(st, ref, Deref(st, ref).failed_attempts)

\* user['failed_attempts'] += 1 on the dict object ref, with nothing in between.
Increment(st, ref) ==
    SetFailedAttempts(st, ref, Deref(st, ref).failed_attempts + 1)

\* create_user, entry to return: the value returned (or Raise).
CreateUserResult(st, u, p) ==
    IF u \in DOMAIN st.users THEN "False"
    ELSE IF HashPassword(p) = Raise THEN Raise
    ELSE "True"

\* Variant: the record is written although the key is present.
CreateUserStore_Overwrite(st, u, p, t) ==
    IF HashPassword(p) = Raise THEN st
    ELSE Insert(st, u, NewRecord(HashPassword(p), t))

\* create_user, entry to return: the store it leaves.
CreateUserStore(st, u, p, t) ==
    IF u \in DOMAIN st.users THEN st
    ELSE IF HashPassword(p) = Raise THEN st
    ELSE Insert(st, u, NewRecord(HashPassword(p), t))

\* Variant: the stored hash is compared with the password itself.
AuthenticateResult_Plain(st, u, p) ==
    IF u \notin DOMAIN st.users THEN "False"
    ELSE IF HashPassword(p) = Raise THEN Raise
    ELSE IF Record(st, u).password = p THEN "True"
    ELSE "False"

\* authenticate, entry to return: the value returned (or Raise).
AuthenticateResult(st, u, p) ==
    IF u \notin DOMAIN st.users THEN "False"
    ELSE IF HashPassword(p) = Raise THEN Raise
    ELSE IF Record(st, u).password = HashPassword(p) THEN "True"
    ELSE "False"

\* Variant: a miss binds the key to a fresh record (as self.users.setdefault would).
AuthenticateStore_InsertOnMiss(st, u, p) ==
    IF u \notin DOMAIN st.users THEN Insert(st, u, NewRecord("", 0))
    ELSE IF HashPassword(p) = Raise THEN st
    ELSE IF Record(st, u).password = HashPassword(p) THEN st
    ELSE Increment(st, st.users[u])

\* Variant: the attempt is counted before the password is hashed.
AuthenticateStore_CountFirst(st, u, p) ==
    IF u \notin DOMAIN st.users THEN st
    ELSE IF HashPassword(p) = Raise THEN Increment(st, st.users[u])
    ELSE IF Record(st, u).password = HashPassword(p) THEN st
    ELSE Increment(st, st.users[u])

\* authenticate, entry to return: the store it leaves.
AuthenticateStore(st, u, p) ==
    IF u \notin DOMAIN st.users THEN st
    ELSE IF HashPassword(p) = Raise THEN st
    ELSE IF Record(st, u).password = HashPassword(p) THEN st
    ELSE Increment(st, st.users[u])

\* login, entry to return: the value authenticate returns (or Raise).
LoginResult(st, u, p) == AuthenticateResult(st, u, p)

\* Variant: the legacy method checks the password without counting failures.
LoginStore_NoCount(st, u, p) == st

\* login, entry to return: the store authenticate leaves.
LoginStore(st, u, p) == AuthenticateStore(st, u, p)

\* ---------------------------------------------------------------- state
VARIABLES
    users,      \* self.users: key -> reference to a dict object
    heap,       \* the dict objects allocated so far
    now,        \* the value time.time() returns
    last,       \* Spec: the call that returned last, with the store it started from
    obs,        \* Spec: what a caller has observed per username
    returned,   \* per username, how many calls returned what
    thr         \* SpecConc: per thread, its position and locals

vars == <<users, heap, now, last, obs, returned, thr>>

Cur == Store(users, heap)

NoCall ==
    [op |-> "none", username |-> "", password |-> "", result |-> "none",
     pre |-> Store(<<>>, [u \in Usernames |-> <<>>]), locked |-> FALSE]

Idle ==
    [pc |-> "idle", op |-> "none", username |-> "", password |-> "",
     hashed |-> "", user |-> <<>>, tmp |-> 0, calls |-> 0]

Init ==
    /\ users = <<>>
    /\ heap = [u \in Usernames |-> <<>>]
    /\ now = 0
    /\ last = NoCall
    /\ obs = [created_with |-> <<>>,
              streak |-> [u \in Usernames |-> 0],
              locked_at |-> [u \in Usernames |-> 0]]
    /\ returned = [created |-> [u \in Usernames |-> 0],
                   failed |-> [u \in Usernames |-> 0]]
    /\ thr = [t \in Threads |-> Idle]

\* The clock advances between calls.
Tick ==
    /\ now < MaxTime
    /\ now' = now + 1
    /\ UNCHANGED <<users, heap, last, obs, returned, thr>>

\* The account is in its lockout window as the design document defines it:
\* Threshold consecutive failed verifications, the last of them less than
\* LockoutDuration ago.
Locked(u) ==
    /\ obs.streak[u] >= Threshold
    /\ now < obs.locked_at[u] + LockoutDuration

Min(a, b) == IF a < b THEN a ELSE b

\* What the caller has seen after a verification of u returned res.
ObserveVerification(u, res, existed) ==
    IF ~existed \/ res = Raise THEN obs
    ELSE IF res = "True" THEN [obs EXCEPT !.streak[u] = 0, !.locked_at[u] = 0]
    ELSE [obs EXCEPT !.streak[u] = Min(obs.streak[u] + 1, Threshold),
                     !.locked_at[u] = IF obs.streak[u] + 1 = Threshold
                                      THEN now ELSE obs.locked_at[u]]

\* ------------------------------------------------- Spec: whole calls
create_user(u, p) ==
    LET res == CreateUserResult(Cur, u, p)
        st  == CreateUserStore(Cur, u, p, now)
    IN  /\ users' = st.users
        /\ heap' = st.heap
        /\ last' = [op |-> "create_user", username |-> u, password |-> p,
                    result |-> res, pre |-> Cur, locked |-> FALSE]
        /\ obs' = IF res = "True"
                  THEN [obs EXCEPT !.created_with =
                          [x \in DOMAIN obs.created_with \cup {u} |->
                              IF x = u THEN p ELSE obs.created_with[x]]]
                  ELSE obs
        /\ returned' = IF res = "True"
                       THEN [returned EXCEPT !.created[u] = returned.created[u] + 1]
                       ELSE returned
        /\ UNCHANGED <<now, thr>>

\* A verification through op ("authenticate" or "login"), issued while it leaves
\* every failed_attempts at most max.
VerifyUpTo(op, u, p, max) ==
    LET res == IF op = "login" THEN LoginResult(Cur, u, p)
                               ELSE AuthenticateResult(Cur, u, p)
        st  == IF op = "login" THEN LoginStore(Cur, u, p)
                               ELSE AuthenticateStore(Cur, u, p)
        existed == u \in DOMAIN users
    IN  /\ \A x \in DOMAIN st.users : Record(st, x).failed_attempts <= max
        /\ users' = st.users
        /\ heap' = st.heap
        /\ last' = [op |-> op, username |-> u, password |-> p,
                    result |-> res, pre |-> Cur, locked |-> existed /\ Locked(u)]
        /\ obs' = ObserveVerification(u, res, existed)
        /\ returned' = IF existed /\ res = "False"
                       THEN [returned EXCEPT !.failed[u] = returned.failed[u] + 1]
                       ELSE returned
        /\ UNCHANGED <<now, thr>>

Verify(op, u, p) == VerifyUpTo(op, u, p, MaxAttempts)

authenticate(u, p) == Verify("authenticate", u, p)

\* login returns self.authenticate(username, password).
login(u, p) == Verify("login", u, p)

Next ==
    \/ Tick
    \/ \E u \in Usernames, p \in Passwords : create_user(u, p)
    \/ \E u \in Usernames, p \in Passwords : authenticate(u, p)
    \/ \E u \in Usernames, p \in Passwords : login(u, p)

Spec == Init /\ [][Next]_vars

\* SpecLock: as Spec, with verifications issued until failed_attempts is one
\* above Threshold, so that verifications of an account in its lockout window occur.
NextLock ==
    \/ Tick
    \/ \E u \in Usernames, p \in Passwords : create_user(u, p)
    \/ \E u \in Usernames, p \in Passwords :
          VerifyUpTo("authenticate", u, p, Threshold + 1)
    \/ \E u \in Usernames, p \in Passwords :
          VerifyUpTo("login", u, p, Threshold + 1)

SpecLock == Init /\ [][NextLock]_vars

\* ------------------------------------- SpecConc: interleaved statements
\* The pc of a thread is the source line it executes next.
AllIdle == \A t \in Threads : thr[t].pc = "idle"

\* A thread enters a method.
Call(t, op, u, p) ==
    /\ thr[t].pc = "idle"
    /\ thr[t].calls < MaxCalls
    /\ thr' = [thr EXCEPT ![t] =
                 [Idle EXCEPT !.pc = CASE op = "create_user"  -> "L13"
                                      [] op = "authenticate" -> "L30"
                                      [] op = "login"        -> "L47",
                              !.op = op, !.username = u, !.password = p,
                              !.calls = thr[t].calls + 1]]
    /\ UNCHANGED <<users, heap, now, last, obs, returned>>

\* The thread's locals after its call has returned.
Return(t) == [Idle EXCEPT !.calls = thr[t].calls]

\* line 13: if username in self.users: return False
Create13(t) ==
    /\ thr[t].pc = "L13"
    /\ thr' = [thr EXCEPT ![t] = IF thr[t].username \in DOMAIN users
                                 THEN Return(t)
                                 ELSE [thr[t] EXCEPT !.pc = "L17"]]
    /\ UNCHANGED <<users, heap, now, last, obs, returned>>

\* line 17: hashed_password = hashlib.sha256(password.encode()).hexdigest()
Create17(t) ==
    /\ thr[t].pc = "L17"
    /\ thr' = [thr EXCEPT ![t] = IF HashPassword(thr[t].password) = Raise
                                 THEN Return(t)
                                 ELSE [thr[t] EXCEPT !.pc = "L20",
                                          !.hashed = HashPassword(thr[t].password)]]
    /\ UNCHANGED <<users, heap, now, last, obs, returned>>

\* lines 20-26: self.users[username] = {...}; return True
Create20(t) ==
    /\ thr[t].pc = "L20"
    /\ LET st == Insert(Cur, thr[t].username, NewRecord(thr[t].hashed, now))
       IN  /\ users' = st.users
           /\ heap' = st.heap
    /\ returned' = [returned EXCEPT !.created[thr[t].username] = @ + 1]
    /\ thr' = [thr EXCEPT ![t] = Return(t)]
    /\ UNCHANGED <<now, last, obs>>

\* line 47: return self.authenticate(username, password)
Login47(t) ==
    /\ thr[t].pc = "L47"
    /\ thr' = [thr EXCEPT ![t].pc = "L30"]
    /\ UNCHANGED <<users, heap, now, last, obs, returned>>

\* line 30: if username not in self.users: return False
Auth30(t) ==
    /\ thr[t].pc = "L30"
    /\ thr' = [thr EXCEPT ![t] = IF thr[t].username \notin DOMAIN users
                                 THEN Return(t)
                                 ELSE [thr[t] EXCEPT !.pc = "L33"]]
    /\ UNCHANGED <<users, heap, now, last, obs, returned>>

\* line 33: user = self.users[username]
Auth33(t) ==
    /\ thr[t].pc = "L33"
    /\ thr' = [thr EXCEPT ![t].pc = "L34", ![t].user = users[thr[t].username]]
    /\ UNCHANGED <<users, heap, now, last, obs, returned>>

\* line 34: hashed_password = hashlib.sha256(password.encode()).hexdigest()
Auth34(t) ==
    /\ thr[t].pc = "L34"
    /\ thr' = [thr EXCEPT ![t] = IF HashPassword(thr[t].password) = Raise
                                 THEN Return(t)
                                 ELSE [thr[t] EXCEPT !.pc = "L36",
                                          !.hashed = HashPassword(thr[t].password)]]
    /\ UNCHANGED <<users, heap, now, last, obs, returned>>

\* lines 36-38: if user['password'] == hashed_password: return True
Auth36(t) ==
    /\ thr[t].pc = "L36"
    /\ thr' = [thr EXCEPT ![t] = IF Deref(Cur, thr[t].user).password = thr[t].hashed
                                 THEN Return(t)
                                 ELSE [thr[t] EXCEPT !.pc = "L41"]]
    /\ UNCHANGED <<users, heap, now, last, obs, returned>>

\* line 41, first half: the value of user['failed_attempts'] is read
Auth41Read(t) ==
    /\ thr[t].pc = "L41"
    /\ thr' = [thr EXCEPT ![t].pc = "L41w",
                          ![t].tmp = Deref(Cur, thr[t].user).failed_attempts]
    /\ UNCHANGED <<users, heap, now, last, obs, returned>>

\* lines 41-42: the value read, plus one, is stored; return False
Auth41Write(t) ==
    /\ thr[t].pc = "L41w"
    /\ LET st == SetFailedAttempts(Cur, thr[t].user, thr[t].tmp + 1)
       IN  /\ users' = st.users
           /\ heap' = st.heap
    /\ returned' = [returned EXCEPT !.failed[thr[t].username] = @ + 1]
    /\ thr' = [thr EXCEPT ![t] = Return(t)]
    /\ UNCHANGED <<now, last, obs>>

NextConc ==
    \/ Tick
    \/ \E t \in Threads, u \in Usernames, p \in Passwords :
          \E op \in {"create_user", "authenticate", "login"} : Call(t, op, u, p)
    \/ \E t \in Threads : Create13(t)
    \/ \E t \in Threads : Create17(t)
    \/ \E t \in Threads : Create20(t)
    \/ \E t \in Threads : Login47(t)
    \/ \E t \in Threads : Auth30(t)
    \/ \E t \in Threads : Auth33(t)
    \/ \E t \in Threads : Auth34(t)
    \/ \E t \in Threads : Auth36(t)
    \/ \E t \in Threads : Auth41Read(t)
    \/ \E t \in Threads : Auth41Write(t)

SpecConc == Init /\ [][NextConc]_vars

\* ---------------------------------------------------------------- claims
\* The call that returned last, and the record of its username before and after.
LastIs(op) == last.op = op
Existed == last.username \in DOMAIN last.pre.users
Before == Record(last.pre, last.username)
After == Record(Cur, last.username)

\* C1: once create_user(u, s1) has succeeded, a later create_user(u, s2) fails and
\* leaves the store as it was (u's hash, creation timestamp and failed-attempt
\* counter included); authenticate(u, s1) would still succeed and authenticate(u, s2)
\* for every other secret s2 would still fail.
C1_DuplicateCreateRejected ==
    (LastIs("create_user") /\ Existed) =>
        /\ last.result = "False"
        /\ Cur = last.pre
        /\ After = Before
        /\ AuthenticateResult(Cur, last.username, obs.created_with[last.username]) = "True"
        /\ \A s \in Secrets \ {obs.created_with[last.username]} :
              AuthenticateResult(Cur, last.username, s) = "False"

\* A second create_user of alice, with another secret than the first, has returned
\* after alice had failed verifications.
C1_Witness ==
    /\ LastIs("create_user") /\ Existed
    /\ last.username = "alice"
    /\ last.password \in Secrets \ {obs.created_with["alice"]}
    /\ Before.failed_attempts > 0
    /\ Before.created_at < now

\* C2: when create_user(u, s) has just succeeded, authenticate(u, s) returns True
\* (and leaves the store alone).
C2_VerifyAfterCreate ==
    (LastIs("create_user") /\ last.result = "True") =>
        /\ AuthenticateResult(Cur, last.username, last.password) = "True"
        /\ AuthenticateStore(Cur, last.username, last.password) = Cur

\* create_user("Alice", "a") has just succeeded, alice being present with another secret.
C2_Witness ==
    /\ LastIs("create_user") /\ last.result = "True"
    /\ last.username = "Alice" /\ last.password = "a"
    /\ "alice" \in DOMAIN users /\ obs.created_with["alice"] = ""

\* C3: authenticate(u, s) for a present u and a secret s other than the one u was
\* created with returns False and leaves u's failed_attempts one greater than before.
C3_WrongSecretCountsOnce ==
    (LastIs("authenticate") /\ Existed /\ last.password \in Secrets
        /\ last.password # obs.created_with[last.username]) =>
        /\ last.result = "False"
        /\ After.failed_attempts = Before.failed_attempts + 1

\* A wrong secret has been presented for alice, whose counter was 1 before the call.
C3_Witness ==
    /\ LastIs("authenticate") /\ Existed /\ last.username = "alice"
    /\ last.password \in Secrets \ {obs.created_with["alice"]}
    /\ Before.failed_attempts = 1
    /\ After.failed_attempts = 2

\* C4: a verification of an account that is in its lockout window (Threshold
\* consecutive failed verifications, the last of them less than LockoutDuration
\* ago) does not succeed, whatever the secret.
C4_LockedAfterThreshold ==
    (LastIs("authenticate") /\ last.locked) => last.result # "True"

\* C5: after a verification has succeeded, the failed_attempts of its username is 0.
C5_SuccessResetsCounter ==
    (LastIs("authenticate") /\ last.result = "True") => After.failed_attempts = 0

\* C6: when no call is in flight, the failed_attempts of a username that was created
\* once equals the number of failed verifications of it that have returned.
C6_NoLostUpdate ==
    \A u \in DOMAIN users :
        (AllIdle /\ returned.created[u] = 1) =>
            Record(Cur, u).failed_attempts = returned.failed[u]

\* C7: for every username at most one create_user call returns True.
C7_CreatedOnce ==
    \A u \in Usernames : returned.created[u] <= 1

\* C8: create_user with the empty secret does not succeed and leaves the store as it was.
C8_EmptySecretRejected ==
    (LastIs("create_user") /\ last.password = "") =>
        /\ last.result # "True"
        /\ Cur = last.pre

\* C9: two different usernames created with the same secret have different stored hashes.
C9_SameSecretDifferentHash ==
    \A u, v \in DOMAIN users :
        (u # v /\ obs.created_with[u] = obs.created_with[v]) =>
            Record(Cur, u).password # Record(Cur, v).password

\* C10: authenticate of a username that is not in the store returns False and leaves
\* the store as it was: no key is added and no record changes.
C10_UnknownUserNoEffect ==
    (LastIs("authenticate") /\ ~Existed) =>
        /\ last.result = "False"
        /\ users = last.pre.users
        /\ heap = last.pre.heap

\* authenticate("Alice", ...) has returned while only alice, with failed attempts, is present.
C10_Witness ==
    /\ LastIs("authenticate") /\ ~Existed /\ last.username = "Alice"
    /\ DOMAIN users = {"alice"}
    /\ Record(Cur, "alice").failed_attempts > 0


\* C11: a failing verification of an account that is in its lockout window leaves
\* the account's failed_attempts as it was, so the counter does not grow while
\* the lockout lasts.
C11_CounterFrozenWhileLocked ==
    (LastIs("authenticate") /\ last.locked /\ last.result = "False") =>
        After.failed_attempts = Before.failed_attempts

\* C12: a call leaves the record of every username other than its own as it was,
\* and create_user leaves every existing record as it was: failed_attempts of u
\* changes only in a verification of u.
C12_OtherRecordsUntouched ==
    \A u \in DOMAIN last.pre.users :
        (LastIs("create_user") \/ last.username # u) =>
            /\ u \in DOMAIN users
            /\ Record(Cur, u) = Record(last.pre, u)

\* A failing verification of Alice has raised Alice's counter to 2 while alice's is 1.
C12_Witness ==
    /\ LastIs("authenticate") /\ Existed /\ last.username = "Alice"
    /\ last.result = "False"
    /\ After.failed_attempts = 2
    /\ "alice" \in DOMAIN last.pre.users
    /\ Record(Cur, "alice").failed_attempts = 1

\* C13: a username that was created is in the store, with the hash of the secret
\* it was created with and a creation timestamp not in the future; no call removes
\* a record or changes its hash or creation timestamp.
C13_RecordsKept ==
    /\ DOMAIN obs.created_with = DOMAIN users
    /\ \A u \in DOMAIN users :
          /\ Record(Cur, u).password = HashPassword(obs.created_with[u])
          /\ Record(Cur, u).created_at <= now
    /\ \A u \in DOMAIN last.pre.users :
          /\ u \in DOMAIN users
          /\ Record(Cur, u).password = Record(last.pre, u).password
          /\ Record(Cur, u).created_at = Record(last.pre, u).created_at

\* login has succeeded for a username created earlier, after two failed attempts.
C13_Witness ==
    /\ LastIs("login") /\ Existed /\ last.result = "True"
    /\ Before.failed_attempts = 2
    /\ Before.created_at < now

\* C14: a record is created with failed_attempts 0 and nothing else than a hash and
\* a creation timestamp (no lockout), its username is not locked, and the
\* failed_attempts of every record is a natural number.
C14_CounterStartsAtZero ==
    /\ (LastIs("create_user") /\ last.result = "True") =>
          /\ After.failed_attempts = 0
          /\ DOMAIN After = {"password", "created_at", "failed_attempts"}
          /\ ~Locked(last.username)
    /\ \A u \in DOMAIN users : Record(Cur, u).failed_attempts \in Nat

\* alice has been created at time 1 while Alice has two failed attempts.
C14_Witness ==
    /\ LastIs("create_user") /\ last.result = "True" /\ last.username = "alice"
    /\ After.created_at = 1
    /\ "Alice" \in DOMAIN users
    /\ Record(Cur, "Alice").failed_attempts = 2

\* C15: a call whose password cannot be hashed raises when it reaches the hashing
\* step (create_user of an absent username, a verification of a present one), and
\* a call that raised has left the store as it was.
C15_HashFailureLeavesStore ==
    /\ last.result = Raise => Cur = last.pre
    /\ (last.password = PyNone /\ (LastIs("create_user") <=> ~Existed)
            /\ ~LastIs("none")) => last.result = Raise

\* authenticate of alice with a password that cannot be hashed has raised, alice
\* having one failed attempt.
C15_Witness ==
    /\ LastIs("authenticate") /\ Existed /\ last.username = "alice"
    /\ last.password = PyNone /\ last.result = Raise
    /\ After.failed_attempts = 1

\* C16: create_user with a username that does not match the configured format
\* does not succeed and leaves the store as it was.
C16_MalformedUsernameRejected ==
    (LastIs("create_user") /\ ~MatchesFormat(last.username)) =>
        /\ last.result # "True"
        /\ Cur = last.pre

\* C17: a login call returns what authenticate returns from the same store with
\* the same arguments, and leaves the store authenticate leaves (the same change
\* to failed_attempts included).
C17_LoginIsAuthenticate ==
    LastIs("login") =>
        /\ last.result = AuthenticateResult(last.pre, last.username, last.password)
        /\ Cur = AuthenticateStore(last.pre, last.username, last.password)

\* login with a wrong secret has returned False and raised the counter from 1 to 2.
C17_Witness ==
    /\ LastIs("login") /\ Existed /\ last.result = "False"
    /\ Before.failed_attempts = 1
    /\ After.failed_attempts = 2

\* C18: authenticate(u, p) returns True exactly when u is in the store and p is the
\* secret u was created with, whatever u's failed_attempts and the other records
\* are: in every reachable store, and for the authenticate call that returned last.
C18_TrueIffCreatedSecret ==
    /\ \A u \in Usernames, p \in Passwords :
          AuthenticateResult(Cur, u, p) = "True"
              <=> (u \in DOMAIN users /\ p = obs.created_with[u])
    /\ LastIs("authenticate") =>
          (last.result = "True"
              <=> (Existed /\ last.password = obs.created_with[last.username]))

\* authenticate of alice has succeeded after two failed attempts, Alice being
\* present with another secret.
C18_Witness ==
    /\ LastIs("authenticate") /\ last.username = "alice" /\ last.result = "True"
    /\ Before.failed_attempts = 2
    /\ "Alice" \in DOMAIN users
    /\ obs.created_with["Alice"] # obs.created_with["alice"]
=============================================================================
